---- MODULE Spec2Model ----
(***************************************************************************)
(* Course entitlement and progress engine of backend-tecnojuy2.            *)
(*                                                                         *)
(* The state is the database (users, courses, lessons, course_enrollments, *)
(* lesson_progress) plus the requests in flight.  Every request runs in    *)
(* its own SQLAlchemy session (app/db/session.py): the statements of a     *)
(* request read the committed state at the moment they run, the writes of  *)
(* a request stay in its session until db.commit(), and a request that     *)
(* raises before its commit leaves nothing behind.  A request is therefore *)
(* a sequence of steps: its reads, then each of its commits.               *)
(***************************************************************************)
EXTENDS Integers, FiniteSets, Sequences, TLC

\* Number of requests the server handles at the same time.
MaxWorkers == 2

VARIABLES
    users,             \* users table: id -> [role, has_premium_access]
    courses,           \* courses table: id -> [is_premium, is_published]
    lessons,           \* lessons table: id -> [course_id, is_published, is_free]
    enrollments,       \* course_enrollments table: a set of rows
    progress,          \* lesson_progress table: a set of rows
    req,               \* worker -> the request it is handling (its session)
    resp,              \* the response of the request that finished last
    uniqueEnrollment   \* the deployed course_enrollments table has UNIQUE(user_id, course_id)

vars == <<users, courses, lessons, enrollments, progress, req, resp, uniqueEnrollment>>

----------------------------------------------------------------------------
\* Seed data

\* user 1 is an administrator, user 2 a student (roles of app/db/init_db.py)
SeedUsers ==
    << [role |-> "admin",  has_premium_access |-> FALSE],
       [role |-> "alumno", has_premium_access |-> FALSE] >>

\* an id that matches no row of the users table
UnknownUserId == Len(SeedUsers) + 1

\* every user id a caller can pass
CallerIds == DOMAIN SeedUsers \cup {UnknownUserId}

IsAdmin(user_id) == user_id \in DOMAIN users /\ users[user_id].role = "admin"

\* the students of the seed data
Students == {u \in DOMAIN SeedUsers : SeedUsers[u].role = "alumno"}

\* the administrators of the seed data
Admins == {u \in DOMAIN SeedUsers : SeedUsers[u].role = "admin"}

\* course 1 is premium, course 2 is free
SeedCourses ==
    << [is_premium |-> TRUE,  is_published |-> TRUE],
       [is_premium |-> FALSE, is_published |-> TRUE] >>

\* a course id that matches no row of the courses table
UnknownCourseId == Len(SeedCourses) + 1

\* the courses an individual purchase is granted for
PremiumCourses == {c \in DOMAIN SeedCourses : SeedCourses[c].is_premium}

Lesson(course_id, is_published, is_free) ==
    [course_id |-> course_id, is_published |-> is_published, is_free |-> is_free]

----------------------------------------------------------------------------
\* Rows and queries

\* A row is known by its primary key.  Only the rows of one (user, course) or
\* (user, lesson) pair are ever told apart by it, so the key is kept as the
\* ordinal of the row among the rows of its pair: the first unused one.
NextId(rows) == CHOOSE n \in 1..(Cardinality(rows) + 1) : \A r \in rows : r.id # n

\* CourseEnrollment(user_id, course_id, has_access=True): the progress columns
\* take their defaults
NewEnrollment(id, user_id, course_id) ==
    [id |-> id, user_id |-> user_id, course_id |-> course_id, has_access |-> TRUE,
     progress_percentage |-> 0, completed_lessons |-> 0]

NewProgress(id, user_id, lesson_id, is_completed, progress_percentage) ==
    [id |-> id, user_id |-> user_id, lesson_id |-> lesson_id,
     is_completed |-> is_completed, progress_percentage |-> progress_percentage]

\* db.query(CourseEnrollment).filter(user_id ==, course_id ==)
EnrollmentsOf(user_id, course_id) ==
    {e \in enrollments : e.user_id = user_id /\ e.course_id = course_id}

\* db.query(LessonProgress).filter(user_id ==, lesson_id ==)
ProgressOf(user_id, lesson_id) ==
    {p \in progress : p.user_id = user_id /\ p.lesson_id = lesson_id}

\* .first() of a query without ORDER BY: the id of any matching row, 0 for None
First(rows) == IF rows = {} THEN {0} ELSE {r.id : r \in rows}

----------------------------------------------------------------------------
\* AccessResolver

\* a plausible slip: the enrollment lookup forgets the has_access filter
CheckUserAccess_NoAccessFilter(user_id, course_id) ==
    IF user_id \notin DOMAIN users THEN FALSE
    ELSE IF users[user_id].role = "admin" THEN TRUE
    ELSE IF course_id \in DOMAIN courses /\ ~courses[course_id].is_premium THEN TRUE
    ELSE IF users[user_id].has_premium_access THEN TRUE
    ELSE EnrollmentsOf(user_id, course_id) # {}

CheckUserAccess(user_id, course_id) ==
    IF user_id \notin DOMAIN users THEN FALSE
    ELSE IF users[user_id].role = "admin" THEN TRUE
    ELSE IF course_id \in DOMAIN courses /\ ~courses[course_id].is_premium THEN TRUE
    ELSE IF users[user_id].has_premium_access THEN TRUE
    ELSE \E e \in EnrollmentsOf(user_id, course_id) : e.has_access

\* a plausible slip: the course entitlement is checked before the free flag
CheckLessonAccess_CourseFirst(user_id, lesson_id) ==
    IF lesson_id \notin DOMAIN lessons THEN FALSE
    ELSE IF ~CheckUserAccess(user_id, lessons[lesson_id].course_id) THEN FALSE
    ELSE TRUE

CheckLessonAccess(user_id, lesson_id) ==
    IF lesson_id \notin DOMAIN lessons THEN FALSE
    ELSE IF lessons[lesson_id].is_free THEN TRUE
    ELSE CheckUserAccess(user_id, lessons[lesson_id].course_id)

----------------------------------------------------------------------------
\* Requests and responses

IdleReq ==
    [op |-> "none", pc |-> "idle", user |-> 0, target |-> 0, course |-> 0,
     found |-> 0, enr |-> 0, total |-> 0, completed |-> 0,
     pct_in |-> 0, done_in |-> FALSE, wrote |-> FALSE, again |-> FALSE]

Reply(op, status, user, target) ==
    [op |-> op, status |-> status, user |-> user, target |-> target,
     granted |-> FALSE, total |-> 0, completed |-> 0, wrote |-> FALSE, again |-> FALSE,
     listed |-> {}]

NoReply == Reply("none", 0, 0, 0)

Idle(w) == req[w].pc = "idle"

\* a request is taken up when a worker is free
WorkerFree == \E w \in DOMAIN req : Idle(w)

dbVars == <<users, courses, lessons, enrollments, progress>>

----------------------------------------------------------------------------
\* Access checks, as a handler runs them

CheckUserAccessCall(user_id, course_id) ==
    /\ WorkerFree
    /\ resp' = [Reply("check_user_access", 200, user_id, course_id)
                   EXCEPT !.granted = CheckUserAccess(user_id, course_id)]
    /\ UNCHANGED <<dbVars, req, uniqueEnrollment>>

CheckLessonAccessCall(user_id, lesson_id) ==
    /\ WorkerFree
    /\ resp' = [Reply("check_lesson_access", 200, user_id, lesson_id)
                   EXCEPT !.granted = CheckLessonAccess(user_id, lesson_id)]
    /\ UNCHANGED <<dbVars, req, uniqueEnrollment>>

----------------------------------------------------------------------------
\* Admin mutations of the entitlement

GrantPremiumAccess(user_id) ==
    /\ WorkerFree
    /\ IF user_id \in DOMAIN users
       THEN /\ users' = [users EXCEPT ![user_id].has_premium_access = TRUE]
            /\ resp' = Reply("grant_premium_access", 200, user_id, 0)
       ELSE /\ users' = users
            /\ resp' = Reply("grant_premium_access", 404, user_id, 0)
    /\ UNCHANGED <<courses, lessons, enrollments, progress, req, uniqueEnrollment>>

RevokePremiumAccess(user_id) ==
    /\ WorkerFree
    /\ IF user_id \in DOMAIN users
       THEN /\ users' = [users EXCEPT ![user_id].has_premium_access = FALSE]
            /\ resp' = Reply("revoke_premium_access", 200, user_id, 0)
       ELSE /\ users' = users
            /\ resp' = Reply("revoke_premium_access", 404, user_id, 0)
    /\ UNCHANGED <<courses, lessons, enrollments, progress, req, uniqueEnrollment>>

\* grant_course_access up to the lookup of the existing enrollment
GrantCourseAccessBegin(w, user_id, course_id, granted_by) ==
    /\ Idle(w)
    /\ IF ~IsAdmin(granted_by)
       THEN /\ resp' = Reply("grant_course_access", 403, user_id, course_id)
            /\ req' = req
       ELSE IF course_id \notin DOMAIN courses \/ user_id \notin DOMAIN users
       THEN /\ resp' = Reply("grant_course_access", 404, user_id, course_id)
            /\ req' = req
       ELSE \E existing \in First(EnrollmentsOf(user_id, course_id)) :
            /\ req' = [req EXCEPT ![w] =
                         [IdleReq EXCEPT !.op = "grant_course_access", !.pc = "commit",
                                         !.user = user_id, !.target = course_id,
                                         !.course = course_id, !.enr = existing]]
            /\ resp' = NoReply
    /\ UNCHANGED <<dbVars, uniqueEnrollment>>

\* grant_course_access from the update or the insert to db.commit()
GrantCourseAccessCommit(w) ==
    /\ req[w].op = "grant_course_access" /\ req[w].pc = "commit"
    /\ LET r == req[w] IN
       IF r.enr # 0
       THEN \* the row read earlier is updated by primary key
            /\ enrollments' = {IF e \in EnrollmentsOf(r.user, r.target) /\ e.id = r.enr
                                THEN [e EXCEPT !.has_access = TRUE] ELSE e
                                 : e \in enrollments}
            /\ resp' = Reply("grant_course_access", 200, r.user, r.target)
       ELSE IF uniqueEnrollment /\ EnrollmentsOf(r.user, r.target) # {}
       THEN \* the INSERT breaks UNIQUE(user_id, course_id): IntegrityError, rolled back
            /\ enrollments' = enrollments
            /\ resp' = Reply("grant_course_access", 500, r.user, r.target)
       ELSE /\ enrollments' = enrollments \cup
                                 {NewEnrollment(NextId(EnrollmentsOf(r.user, r.target)), r.user, r.target)}
            /\ resp' = Reply("grant_course_access", 200, r.user, r.target)
    /\ req' = [req EXCEPT ![w] = IdleReq]
    /\ UNCHANGED <<users, courses, lessons, progress, uniqueEnrollment>>

\* the revoke endpoint: revoke_course_access, 404 when it returns False
RevokeCourseAccess(user_id, course_id) ==
    /\ WorkerFree
    /\ \E enrollment \in First(EnrollmentsOf(user_id, course_id)) :
          IF enrollment # 0
          THEN /\ enrollments' = {IF e \in EnrollmentsOf(user_id, course_id) /\ e.id = enrollment
                                   THEN [e EXCEPT !.has_access = FALSE]
                                   ELSE e : e \in enrollments}
               /\ resp' = Reply("revoke_course_access", 200, user_id, course_id)
          ELSE /\ enrollments' = enrollments
               /\ resp' = Reply("revoke_course_access", 404, user_id, course_id)
    /\ UNCHANGED <<users, courses, lessons, progress, req, uniqueEnrollment>>

----------------------------------------------------------------------------
\* Global premium with its audit row, and the listings

\* course_id of the row grant_lifetime_access inserts
SentinelCourseId == 0

\* course_enrollments.course_id is declared ForeignKey("courses.id"), in the
\* models and in both table scripts: an INSERT passes when the course exists
ForeignKeyHolds(course_id) == course_id \in DOMAIN courses

\* grant_lifetime_access: one transaction sets users.has_premium_access and
\* inserts the audit row; an IntegrityError at db.commit() rolls both back
GrantLifetimeAccess(user_id, granted_by_user_id) ==
    /\ WorkerFree
    /\ IF ~IsAdmin(granted_by_user_id)
       THEN /\ resp' = Reply("grant_lifetime_access", 403, user_id, SentinelCourseId)
            /\ UNCHANGED <<users, enrollments>>
       ELSE IF user_id \notin DOMAIN users
       THEN /\ resp' = Reply("grant_lifetime_access", 404, user_id, SentinelCourseId)
            /\ UNCHANGED <<users, enrollments>>
       ELSE IF \/ ~ForeignKeyHolds(SentinelCourseId)
               \/ uniqueEnrollment /\ EnrollmentsOf(user_id, SentinelCourseId) # {}
       THEN /\ resp' = Reply("grant_lifetime_access", 500, user_id, SentinelCourseId)
            /\ UNCHANGED <<users, enrollments>>
       ELSE /\ users' = [users EXCEPT ![user_id].has_premium_access = TRUE]
            /\ enrollments' = enrollments \cup
                   {NewEnrollment(NextId(EnrollmentsOf(user_id, SentinelCourseId)),
                                  user_id, SentinelCourseId)}
            /\ resp' = Reply("grant_lifetime_access", 200, user_id, SentinelCourseId)
    /\ UNCHANGED <<courses, lessons, progress, req, uniqueEnrollment>>

\* get_user_courses: the ids of the courses returned
UserCourses(user_id) ==
    LET published == {c \in DOMAIN courses : courses[c].is_published} IN
    IF user_id \notin DOMAIN users THEN {}
    ELSE IF users[user_id].role = "admin" THEN published
    ELSE IF users[user_id].has_premium_access
    THEN {c \in published : courses[c].is_premium}
    ELSE {c \in published : \E e \in enrollments :
                                /\ e.user_id = user_id /\ e.has_access /\ e.course_id = c}
         \cup {c \in published : ~courses[c].is_premium}

GetUserCourses(user_id) ==
    /\ WorkerFree
    /\ resp' = [Reply("get_user_courses", 200, user_id, 0)
                   EXCEPT !.listed = UserCourses(user_id)]
    /\ UNCHANGED <<dbVars, req, uniqueEnrollment>>

\* the attributes of a CourseEnrollment object the admin listing reads that
\* the row cannot give: the user and granted_by relationships are commented
\* out of the model, and course is None when no course has the row's course_id
MissingAttributes(e) ==
    {"user", "granted_by"} \cup (IF e.course_id \in DOMAIN courses THEN {} ELSE {"course.title"})

\* GET /admin/enrollments: every row of the table, one dictionary per row;
\* an AttributeError while a dictionary is built is a 500
GetAllEnrollments ==
    /\ WorkerFree
    /\ IF \E e \in enrollments : MissingAttributes(e) # {}
       THEN resp' = Reply("get_all_enrollments", 500, 0, 0)
       ELSE resp' = [Reply("get_all_enrollments", 200, 0, 0)
                        EXCEPT !.listed = {e.course_id : e \in enrollments}]
    /\ UNCHANGED <<dbVars, req, uniqueEnrollment>>

----------------------------------------------------------------------------
\* ProgressAggregator

\* sessionmaker(autoflush=False): a query does not first flush the session's
\* pending inserts and updates, so it reads the committed rows only
SessionAutoflush == FALSE

\* a column declared Integer stores a number given with one decimal (in tenths
\* here) as the nearest integer
IntegerColumn(tenths) == (tenths + 5) \div 10

\* update_course_progress: round(completed / total * 100, 1), in tenths
RoutePercentage(completed, total) ==
    IF total > 0 THEN (2000 * completed + total) \div (2 * total) ELSE 0

\* _update_course_progress: int((completed / total) * 100)
ServicePercentage(completed, total) == (100 * completed) \div total

\* the lesson_progress table after the flush of the write request r holds in
\* its session: the row read earlier set to (is_completed, percentage), or a
\* new row
Flushed(r, is_completed, percentage) ==
    IF r.found # 0
    THEN {IF p \in ProgressOf(r.user, r.target) /\ p.id = r.found
          THEN [p EXCEPT !.is_completed = is_completed, !.progress_percentage = percentage]
          ELSE p : p \in progress}
    ELSE progress \cup {NewProgress(NextId(ProgressOf(r.user, r.target)), r.user, r.target,
                                    is_completed, percentage)}

\* the lesson_progress rows a query of request r sees
Visible(r) == IF SessionAutoflush THEN Flushed(r, TRUE, 100) ELSE progress

\* the published lessons of the course, as both recomputations count them
PublishedCount(course_id) ==
    Cardinality({l \in DOMAIN lessons :
                    lessons[l].course_id = course_id /\ lessons[l].is_published})

\* a plausible slip: the completed rows are counted without the is_published
\* filter, as _update_course_progress counts them
RouteCompletedCount_AnyLesson(rows, user_id, course_id) ==
    Cardinality({p \in rows :
                    /\ p.user_id = user_id /\ p.is_completed
                    /\ p.lesson_id \in DOMAIN lessons
                    /\ lessons[p.lesson_id].course_id = course_id})

\* update_course_progress: the user's completed rows joined to the published
\* lessons of the course
RouteCompletedCount(rows, user_id, course_id) ==
    Cardinality({p \in rows :
                    /\ p.user_id = user_id /\ p.is_completed
                    /\ p.lesson_id \in DOMAIN lessons
                    /\ lessons[p.lesson_id].course_id = course_id
                    /\ lessons[p.lesson_id].is_published})

\* _update_course_progress: the user's completed rows joined to the lessons of
\* the course, published or not
ServiceCompletedCount(user_id, course_id) ==
    Cardinality({p \in progress :
                    /\ p.user_id = user_id /\ p.is_completed
                    /\ p.lesson_id \in DOMAIN lessons
                    /\ lessons[p.lesson_id].course_id = course_id})

\* the enrollment row read earlier gets the recomputed values
WithProgress(r, percentage, completed) ==
    {IF e \in EnrollmentsOf(r.user, r.course) /\ e.id = r.enr
     THEN [e EXCEPT !.progress_percentage = percentage, !.completed_lessons = completed]
     ELSE e : e \in enrollments}

\* the client sends the request it sent last once more: the one answered last
\* was this same request, and it succeeded
SentAgain(op, user_id, lesson_id) ==
    resp.op = op /\ resp.status = 200 /\ resp.user = user_id /\ resp.target = lesson_id

\* a plausible slip: the handler goes on without the access check
MarkLessonCompleteBegin_NoAccessCheck(w, user_id, lesson_id) ==
    /\ Idle(w)
    /\ IF lesson_id \notin DOMAIN lessons \/ ~lessons[lesson_id].is_published
       THEN /\ resp' = Reply("mark_lesson_complete", 404, user_id, lesson_id)
            /\ req' = req
       ELSE \E lesson_progress \in First(ProgressOf(user_id, lesson_id)) :
            /\ req' = [req EXCEPT ![w] =
                         [IdleReq EXCEPT !.op = "mark_lesson_complete", !.pc = "recompute",
                                         !.user = user_id, !.target = lesson_id,
                                         !.course = lessons[lesson_id].course_id,
                                         !.found = lesson_progress,
                                         !.again = SentAgain("mark_lesson_complete",
                                                             user_id, lesson_id)]]
            /\ resp' = NoReply
    /\ UNCHANGED <<dbVars, uniqueEnrollment>>

\* mark_lesson_complete up to the lookup of the LessonProgress row
MarkLessonCompleteBegin(w, user_id, lesson_id) ==
    /\ Idle(w)
    /\ IF lesson_id \notin DOMAIN lessons \/ ~lessons[lesson_id].is_published
       THEN /\ resp' = Reply("mark_lesson_complete", 404, user_id, lesson_id)
            /\ req' = req
       ELSE IF ~(IsAdmin(user_id) \/ lessons[lesson_id].is_free
                  \/ CheckUserAccess(user_id, lessons[lesson_id].course_id))
       THEN /\ resp' = Reply("mark_lesson_complete", 403, user_id, lesson_id)
            /\ req' = req
       ELSE \E lesson_progress \in First(ProgressOf(user_id, lesson_id)) :
            /\ req' = [req EXCEPT ![w] =
                         [IdleReq EXCEPT !.op = "mark_lesson_complete", !.pc = "recompute",
                                         !.user = user_id, !.target = lesson_id,
                                         !.course = lessons[lesson_id].course_id,
                                         !.found = lesson_progress,
                                         !.again = SentAgain("mark_lesson_complete",
                                                             user_id, lesson_id)]]
            /\ resp' = NoReply
    /\ UNCHANGED <<dbVars, uniqueEnrollment>>

\* mark_lesson_complete: the queries of update_course_progress
MarkLessonCompleteRecompute(w) ==
    /\ req[w].op = "mark_lesson_complete" /\ req[w].pc = "recompute"
    /\ \E enrollment \in First(EnrollmentsOf(req[w].user, req[w].course)) :
          req' = [req EXCEPT ![w].pc = "commit",
                             ![w].total = PublishedCount(req[w].course),
                             ![w].completed =
                                 RouteCompletedCount(Visible(req[w]), req[w].user, req[w].course),
                             ![w].enr = enrollment]
    /\ resp' = NoReply
    /\ UNCHANGED <<dbVars, uniqueEnrollment>>

\* mark_lesson_complete: db.commit() flushes the LessonProgress write and the
\* enrollment update together
MarkLessonCompleteCommit(w) ==
    /\ req[w].op = "mark_lesson_complete" /\ req[w].pc = "commit"
    /\ LET r == req[w] IN
       IF r.target \notin DOMAIN lessons
       THEN \* the lesson went away meanwhile: the flush fails and rolls back
            /\ UNCHANGED <<progress, enrollments>>
            /\ resp' = Reply("mark_lesson_complete", 500, r.user, r.target)
       ELSE /\ progress' = Flushed(r, TRUE, 100)
            /\ enrollments' =
                 IF r.enr # 0
                 THEN WithProgress(r, IntegerColumn(RoutePercentage(r.completed, r.total)),
                                   r.completed)
                 ELSE enrollments
            /\ resp' = [Reply("mark_lesson_complete", 200, r.user, r.target)
                           EXCEPT !.total = r.total, !.completed = r.completed, !.wrote = TRUE,
                                  !.again = r.again]
    /\ req' = [req EXCEPT ![w] = IdleReq]
    /\ UNCHANGED <<users, courses, lessons, uniqueEnrollment>>

\* update_lesson_progress up to the lookup of the LessonProgress row
UpdateLessonProgressBegin(w, user_id, lesson_id, progress_percentage, is_completed) ==
    /\ Idle(w)
    /\ IF lesson_id \notin DOMAIN lessons
       THEN /\ resp' = Reply("update_lesson_progress", 404, user_id, lesson_id)
            /\ req' = req
       ELSE IF ~CheckUserAccess(user_id, lessons[lesson_id].course_id)
       THEN /\ resp' = Reply("update_lesson_progress", 403, user_id, lesson_id)
            /\ req' = req
       ELSE \E found \in First(ProgressOf(user_id, lesson_id)) :
            /\ req' = [req EXCEPT ![w] =
                         [IdleReq EXCEPT !.op = "update_lesson_progress", !.pc = "write",
                                         !.user = user_id, !.target = lesson_id,
                                         !.course = lessons[lesson_id].course_id,
                                         !.found = found,
                                         !.pct_in = progress_percentage,
                                         !.done_in = is_completed]]
            /\ resp' = NoReply
    /\ UNCHANGED <<dbVars, uniqueEnrollment>>

\* update_lesson_progress: the row takes the fields of progress_data, is
\* completed at 100%, and is committed
UpdateLessonProgressWrite(w) ==
    /\ req[w].op = "update_lesson_progress" /\ req[w].pc = "write"
    /\ LET r == req[w] IN
       IF r.target \notin DOMAIN lessons
       THEN /\ progress' = progress
            /\ resp' = Reply("update_lesson_progress", 500, r.user, r.target)
            /\ req' = [req EXCEPT ![w] = IdleReq]
       ELSE /\ progress' = Flushed(r, r.done_in \/ r.pct_in >= 100, r.pct_in)
            /\ resp' = NoReply
            /\ req' = [req EXCEPT ![w].pc = "recompute", ![w].wrote = TRUE]
    /\ UNCHANGED <<users, courses, lessons, enrollments, uniqueEnrollment>>

\* update_lesson_progress: the queries of _update_course_progress, which
\* returns when the course has no published lesson or the user no enrollment
UpdateLessonProgressRecompute(w) ==
    /\ req[w].op = "update_lesson_progress" /\ req[w].pc = "recompute"
    /\ LET r == req[w]
           total_lessons == PublishedCount(r.course)
       IN \E enrollment \in First(EnrollmentsOf(r.user, r.course)) :
          IF total_lessons = 0 \/ enrollment = 0
          THEN /\ req' = [req EXCEPT ![w] = IdleReq]
               /\ resp' = [Reply("update_lesson_progress", 200, r.user, r.target)
                              EXCEPT !.total = total_lessons, !.wrote = TRUE]
          ELSE /\ req' = [req EXCEPT ![w].pc = "commit",
                                     ![w].total = total_lessons,
                                     ![w].completed = ServiceCompletedCount(r.user, r.course),
                                     ![w].enr = enrollment]
               /\ resp' = NoReply
    /\ UNCHANGED <<dbVars, uniqueEnrollment>>

\* update_lesson_progress: the commit of _update_course_progress
UpdateLessonProgressCommit(w) ==
    /\ req[w].op = "update_lesson_progress" /\ req[w].pc = "commit"
    /\ LET r == req[w] IN
       /\ enrollments' = WithProgress(r, ServicePercentage(r.completed, r.total), r.completed)
       /\ resp' = [Reply("update_lesson_progress", 200, r.user, r.target)
                      EXCEPT !.total = r.total, !.completed = r.completed, !.wrote = TRUE]
    /\ req' = [req EXCEPT ![w] = IdleReq]
    /\ UNCHANGED <<users, courses, lessons, progress, uniqueEnrollment>>

\* a statement of the request raises (the connection drops, the statement
\* times out): get_db closes the session and what it had not committed is lost
Abort(w) ==
    /\ ~Idle(w)
    /\ resp' = [Reply(req[w].op, 500, req[w].user, req[w].target)
                   EXCEPT !.wrote = req[w].wrote]
    /\ req' = [req EXCEPT ![w] = IdleReq]
    /\ UNCHANGED <<dbVars, uniqueEnrollment>>

----------------------------------------------------------------------------
\* Admin mutations of the catalogue

\* update_lesson with is_published set in the request
UpdateLesson(lesson_id, is_published) ==
    /\ WorkerFree
    /\ IF lesson_id \in DOMAIN lessons
       THEN /\ lessons' = [lessons EXCEPT ![lesson_id].is_published = is_published]
            /\ resp' = Reply("update_lesson", 200, 0, lesson_id)
       ELSE /\ lessons' = lessons
            /\ resp' = Reply("update_lesson", 404, 0, lesson_id)
    /\ UNCHANGED <<users, courses, enrollments, progress, req, uniqueEnrollment>>

\* delete_lesson: the progress rows of the lesson, then the lesson
DeleteLesson(lesson_id) ==
    /\ WorkerFree
    /\ IF lesson_id \in DOMAIN lessons
       THEN /\ progress' = {p \in progress : p.lesson_id # lesson_id}
            /\ lessons' = [l \in DOMAIN lessons \ {lesson_id} |-> lessons[l]]
            /\ resp' = Reply("delete_lesson", 200, 0, lesson_id)
       ELSE /\ UNCHANGED <<progress, lessons>>
            /\ resp' = Reply("delete_lesson", 404, 0, lesson_id)
    /\ UNCHANGED <<users, courses, enrollments, req, uniqueEnrollment>>

----------------------------------------------------------------------------
\* The entitlement specification: the resolver and the admin mutations

AccessLessons ==
    << Lesson(1, TRUE, TRUE), Lesson(1, TRUE, FALSE), Lesson(2, TRUE, FALSE) >>

Init ==
    /\ users = SeedUsers
    /\ courses = SeedCourses
    /\ lessons = AccessLessons
    /\ enrollments = {}
    /\ progress = {}
    /\ req = [w \in 1..MaxWorkers |-> IdleReq]
    /\ resp = NoReply
    /\ uniqueEnrollment \in BOOLEAN

Next ==
    \/ \E u \in CallerIds, c \in DOMAIN courses : CheckUserAccessCall(u, c)
    \/ \E u \in CallerIds, l \in DOMAIN lessons : CheckLessonAccessCall(u, l)
    \/ \E u \in Students : GrantPremiumAccess(u)
    \/ \E u \in Students : RevokePremiumAccess(u)
    \/ \E w \in DOMAIN req, u \in Students, c \in PremiumCourses, by \in DOMAIN users :
          GrantCourseAccessBegin(w, u, c, by)
    \/ \E w \in DOMAIN req : GrantCourseAccessCommit(w)
    \/ \E u \in Students, c \in PremiumCourses : RevokeCourseAccess(u, c)

Spec == Init /\ [][Next]_vars

----------------------------------------------------------------------------
\* The progress specification: one student, enrolled in the premium course,
\* whose four lessons are published; completions, position updates,
\* publishing and deletion, one request at a time

ProgressLessons ==
    << Lesson(1, TRUE, FALSE), Lesson(1, TRUE, FALSE),
       Lesson(1, TRUE, FALSE), Lesson(1, TRUE, FALSE) >>

\* the bodies of LessonProgressUpdate sent: a position update, a completion
ProgressInputs ==
    { [progress_percentage |-> 50,  is_completed |-> FALSE],
      [progress_percentage |-> 100, is_completed |-> FALSE] }

CompletionInputs == {d \in ProgressInputs : d.progress_percentage >= 100}

InitProgress ==
    /\ users = SeedUsers
    /\ courses = SeedCourses
    /\ lessons = ProgressLessons
    /\ enrollments = {NewEnrollment(1, s, 1) : s \in Students}
    /\ progress = {}
    /\ req = [w \in {1} |-> IdleReq]
    /\ resp = NoReply
    /\ uniqueEnrollment = FALSE

NextProgress ==
    \/ \E w \in DOMAIN req, u \in Students, l \in DOMAIN ProgressLessons :
          MarkLessonCompleteBegin(w, u, l)
    \/ \E w \in DOMAIN req : MarkLessonCompleteRecompute(w)
    \/ \E w \in DOMAIN req : MarkLessonCompleteCommit(w)
    \/ \E w \in DOMAIN req, u \in Students, l \in DOMAIN ProgressLessons, d \in ProgressInputs :
          UpdateLessonProgressBegin(w, u, l, d.progress_percentage, d.is_completed)
    \/ \E w \in DOMAIN req : UpdateLessonProgressWrite(w)
    \/ \E w \in DOMAIN req : UpdateLessonProgressRecompute(w)
    \/ \E w \in DOMAIN req : UpdateLessonProgressCommit(w)
    \/ \E l \in DOMAIN ProgressLessons, v \in BOOLEAN : UpdateLesson(l, v)
    \/ \E l \in DOMAIN ProgressLessons : DeleteLesson(l)

SpecProgress == InitProgress /\ [][NextProgress]_vars

----------------------------------------------------------------------------
\* The concurrency specification: the same student and course with two
\* lessons, MaxWorkers requests at a time, and requests that fail

ConcurrentLessons == << Lesson(1, TRUE, FALSE), Lesson(1, TRUE, FALSE) >>

InitConcurrent ==
    /\ users = SeedUsers
    /\ courses = SeedCourses
    /\ lessons = ConcurrentLessons
    /\ enrollments = {NewEnrollment(1, s, 1) : s \in Students}
    /\ progress = {}
    /\ req = [w \in 1..MaxWorkers |-> IdleReq]
    /\ resp = NoReply
    /\ uniqueEnrollment = FALSE

NextConcurrent ==
    \/ \E w \in DOMAIN req, u \in Students, l \in DOMAIN ConcurrentLessons :
          MarkLessonCompleteBegin(w, u, l)
    \/ \E w \in DOMAIN req : MarkLessonCompleteRecompute(w)
    \/ \E w \in DOMAIN req : MarkLessonCompleteCommit(w)
    \/ \E w \in DOMAIN req, u \in Students, l \in DOMAIN ConcurrentLessons, d \in CompletionInputs :
          UpdateLessonProgressBegin(w, u, l, d.progress_percentage, d.is_completed)
    \/ \E w \in DOMAIN req : UpdateLessonProgressWrite(w)
    \/ \E w \in DOMAIN req : UpdateLessonProgressRecompute(w)
    \/ \E w \in DOMAIN req : UpdateLessonProgressCommit(w)
    \/ \E w \in DOMAIN req : Abort(w)

SpecConcurrent == InitConcurrent /\ [][NextConcurrent]_vars

----------------------------------------------------------------------------
\* Properties of the entitlement (checked under Spec)

\* the enrollment rows of the pair that grant access
Entitled(user_id, course_id) ==
    \E e \in enrollments :
        e.user_id = user_id /\ e.course_id = course_id /\ e.has_access

HasPremium(user_id) == user_id \in DOMAIN users /\ users[user_id].has_premium_access

IsPremiumCourse(course_id) == course_id \in DOMAIN courses /\ courses[course_id].is_premium

IsFreeCourse(course_id) == course_id \in DOMAIN courses /\ ~courses[course_id].is_premium

\* C1: for every user and every premium course, check_user_access answers
\* true exactly when the user is an admin, or has global premium, or has an
\* enrollment row for the course with has_access = true.
C1_PremiumAccessIff ==
    (resp.op = "check_user_access" /\ IsPremiumCourse(resp.target))
        => (resp.granted <=> (IsAdmin(resp.user) \/ HasPremium(resp.user)
                                \/ Entitled(resp.user, resp.target)))

\* C1 witness: a student without global premium was answered true for the
\* premium course, on the strength of an enrollment row alone.
C1_Witness ==
    /\ resp.op = "check_user_access" /\ IsPremiumCourse(resp.target)
    /\ resp.user \in Students /\ ~HasPremium(resp.user)
    /\ resp.granted
    /\ Entitled(resp.user, resp.target)

\* C2: for a course with is_premium = false the access check grants access to
\* any caller, a caller without a user record included.
C2_FreeCourseOpenToAll ==
    (resp.op = "check_user_access" /\ IsFreeCourse(resp.target)) => resp.granted

\* C3: check_lesson_access answers true for every existing free lesson,
\* whoever asks; for a lesson that is not free it answers what
\* check_user_access answers for the lesson's course.
C3_LessonAccess ==
    (resp.op = "check_lesson_access" /\ resp.target \in DOMAIN lessons)
        => IF lessons[resp.target].is_free
           THEN resp.granted
           ELSE resp.granted <=> CheckUserAccess(resp.user, lessons[resp.target].course_id)

\* C3 witness: a caller without a user record was granted a free lesson of the
\* premium course.
C3_Witness ==
    /\ resp.op = "check_lesson_access" /\ resp.target \in DOMAIN lessons
    /\ lessons[resp.target].is_free
    /\ IsPremiumCourse(lessons[resp.target].course_id)
    /\ resp.user = UnknownUserId
    /\ resp.granted

\* C7: at most one CourseEnrollment row exists for each (user, course) pair
\* with a real course id, whatever the interleaving of grants and revocations.
C7_OneEnrollmentPerPair ==
    \A u \in DOMAIN users, c \in DOMAIN courses : Cardinality(EnrollmentsOf(u, c)) <= 1

\* C10: once an access granted to a student without global premium for a
\* premium course has been revoked, check_user_access answers false and the
\* enrollment row is still there, with has_access = false.  (Only a grant
\* creates the row, so a revocation that found one follows a grant.)
C10_RevokeAfterGrant ==
    (/\ resp.op = "revoke_course_access" /\ resp.status = 200
     /\ resp.user \in Students /\ ~HasPremium(resp.user) /\ IsPremiumCourse(resp.target))
        => /\ ~CheckUserAccess(resp.user, resp.target)
           /\ EnrollmentsOf(resp.user, resp.target) # {}
           /\ \A e \in EnrollmentsOf(resp.user, resp.target) : ~e.has_access

----------------------------------------------------------------------------
\* Properties of the progress cache (checked under SpecProgress)

\* the lessons of the course that are published now
PublishedLessons(course_id) ==
    {l \in DOMAIN lessons : lessons[l].course_id = course_id /\ lessons[l].is_published}

\* the lessons the committed LessonProgress rows of the user show completed
CompletedLessons(user_id) ==
    {l \in DOMAIN lessons : \E p \in ProgressOf(user_id, l) : p.is_completed}

\* the mark_lesson_complete request of the user on a lesson of the course has
\* just committed
JustMarked(user_id, course_id) ==
    /\ resp.op = "mark_lesson_complete" /\ resp.status = 200 /\ resp.user = user_id
    /\ resp.target \in DOMAIN lessons /\ lessons[resp.target].course_id = course_id

\* every enrollment row of the pair shows this percentage
CachedPercentage(user_id, course_id, percentage) ==
    \A e \in EnrollmentsOf(user_id, course_id) : e.progress_percentage = percentage

\* C4: in the course with lessons 1..4 published, right after the student has
\* marked lessons 1 and 2 complete the recomputed progress is 50%; right after
\* marking lesson 3 too it is 75%; and with lesson 4 unpublished, the next
\* recomputation gives 100%.
C4_ScenarioPercentages ==
    \A u \in Students, c \in PremiumCourses :
        JustMarked(u, c) =>
            /\ (PublishedLessons(c) = {1, 2, 3, 4} /\ CompletedLessons(u) = {1, 2})
                   => CachedPercentage(u, c, 50)
            /\ (PublishedLessons(c) = {1, 2, 3, 4} /\ CompletedLessons(u) = {1, 2, 3})
                   => CachedPercentage(u, c, 75)
            /\ (PublishedLessons(c) = {1, 2, 3} /\ CompletedLessons(u) = {1, 2, 3})
                   => CachedPercentage(u, c, 100)

\* C5: in every reachable state, completed_lessons of an enrollment is at most
\* the number of lessons of its course that are published now.
C5_CompletedWithinPublished ==
    \A e \in enrollments :
        e.course_id \in DOMAIN courses
            => e.completed_lessons <= Cardinality(PublishedLessons(e.course_id))

----------------------------------------------------------------------------
\* Properties of concurrent progress requests (checked under SpecConcurrent)

AllIdle == \A w \in DOMAIN req : Idle(w)

\* C6: once every mark_lesson_complete request has committed, the enrollment
\* shows the completed count and the percentage that the committed
\* LessonProgress rows give.
C6_CacheFollowsCommittedProgress ==
    \A u \in Students, c \in PremiumCourses :
        (AllIdle /\ JustMarked(u, c)) =>
            \A e \in EnrollmentsOf(u, c) :
                /\ e.completed_lessons = RouteCompletedCount(progress, u, c)
                /\ e.progress_percentage =
                       IntegerColumn(RoutePercentage(RouteCompletedCount(progress, u, c),
                                                     PublishedCount(c)))

\* C8: at most one LessonProgress row exists for each (user, lesson) pair,
\* whatever the interleaving of completions and position updates.
C8_OneProgressRowPerPair ==
    \A u \in DOMAIN users, l \in DOMAIN lessons : Cardinality(ProgressOf(u, l)) <= 1

\* C9: a progress mutation writes the LessonProgress row and the recomputed
\* enrollment in one transaction: a request that failed has persisted nothing,
\* and no request has its LessonProgress write committed while its
\* recomputation is still to come.
C9_MutationIsAtomic ==
    /\ resp.status = 500 => ~resp.wrote
    /\ \A w \in DOMAIN req : ~req[w].wrote

----------------------------------------------------------------------------
\* The premium specification: the entitlement handlers together with the
\* lifetime grant and the listings of courses and enrollments

InitLifetime == Init

NextLifetime ==
    \/ \E u \in CallerIds, by \in DOMAIN users : GrantLifetimeAccess(u, by)
    \/ \E u \in Students : GrantPremiumAccess(u)
    \/ \E u \in Students : RevokePremiumAccess(u)
    \/ \E w \in DOMAIN req, u \in Students, c \in PremiumCourses, by \in Admins :
          GrantCourseAccessBegin(w, u, c, by)
    \/ \E w \in DOMAIN req : GrantCourseAccessCommit(w)
    \/ \E u \in Students, c \in PremiumCourses : RevokeCourseAccess(u, c)
    \/ \E u \in CallerIds, c \in PremiumCourses : CheckUserAccessCall(u, c)
    \/ \E u \in CallerIds : GetUserCourses(u)
    \/ GetAllEnrollments

SpecLifetime == InitLifetime /\ [][NextLifetime]_vars

\* C11: a grant_lifetime_access call by an admin for an existing user leaves
\* the user with access to every premium course, and no enrollment row of the
\* user for a real course comes out of it.
C11_LifetimeGrantOpensPremium ==
    (resp.op = "grant_lifetime_access" /\ resp.status \notin {403, 404}) =>
        /\ resp.status = 200
        /\ \A c \in PremiumCourses : CheckUserAccess(resp.user, c)

C20_RevokeNeverFails ==
    resp.op = "revoke_course_access" => resp.status = 200

----------------------------------------------------------------------------
\* Properties of repeated requests

\* worker w commits a successful mark_lesson_complete in this step
MarkCommits(w) == MarkLessonCompleteCommit(w) /\ resp'.status = 200

\* the request in worker w found a LessonProgress row of the user for its
\* lesson, and that row is completed
AlreadyCompleted(w) ==
    \E p \in ProgressOf(req[w].user, req[w].target) : p.id = req[w].found /\ p.is_completed

\* C13 (checked under SpecProgress): a mark_lesson_complete request sent
\* again right after it succeeded, with nothing in between, recomputes the
\* same values: it leaves every enrollment as the first request left it.
C13_RecomputeIdempotent ==
    [][\A w \in DOMAIN req :
          (MarkCommits(w) /\ req[w].again) => enrollments' = enrollments]_vars

\* C14 (checked under SpecConcurrent): a mark_lesson_complete request for a
\* lesson the user has already completed never lowers completed_lessons of
\* the enrollment and never leaves it above the number of published lessons.
C14_RemarkKeepsCount ==
    [][\A w \in DOMAIN req :
          (MarkCommits(w) /\ AlreadyCompleted(w)) =>
              \A e \in EnrollmentsOf(req[w].user, req[w].course) :
                  \A f \in enrollments' :
                      (f.id = e.id /\ f.user_id = e.user_id /\ f.course_id = e.course_id) =>
                          /\ f.completed_lessons >= e.completed_lessons
                          /\ f.completed_lessons <= PublishedCount(e.course_id)]_vars

----------------------------------------------------------------------------
\* Properties of unpublishing (checked under SpecProgress)

\* what update_course_progress computes for the pair from the committed rows
RouteFresh(user_id, course_id) ==
    IntegerColumn(RoutePercentage(RouteCompletedCount(progress, user_id, course_id),
                                  PublishedCount(course_id)))

\* this step is update_lesson taking the published lesson out of publication,
\* and the user has a completed LessonProgress row for it
UnpublishesCompleted(lesson_id, user_id) ==
    /\ UpdateLesson(lesson_id, FALSE)
    /\ lesson_id \in DOMAIN lessons /\ lessons[lesson_id].is_published
    /\ \E p \in ProgressOf(user_id, lesson_id) : p.is_completed

\* C15 as the spec states it: unpublishing a lesson the user had completed
\* never lowers the percentage the recomputation yields.
C15_UnpublishNeverLowers ==
    [][\A l \in DOMAIN lessons, u \in Students :
          UnpublishesCompleted(l, u) =>
              RouteFresh(u, lessons[l].course_id)' >= RouteFresh(u, lessons[l].course_id)]_vars

\* C15, amended: unpublishing a lesson the user had completed never raises
\* the percentage update_course_progress yields from the committed rows,
\* because the lesson leaves the completed count as well as the total:
\* (c - 1) / (t - 1) <= c / t.
C15_UnpublishNeverRaises ==
    [][\A l \in DOMAIN lessons, u \in Students :
          UnpublishesCompleted(l, u) =>
              RouteFresh(u, lessons[l].course_id)' <= RouteFresh(u, lessons[l].course_id)]_vars

\* a completed lesson has just been unpublished, and the enrollment still
\* shows more than a recomputation would give now
C15_Witness ==
    /\ resp.op = "update_lesson" /\ resp.status = 200
    /\ resp.target \in DOMAIN lessons /\ ~lessons[resp.target].is_published
    /\ \E u \in Students :
          /\ \E p \in ProgressOf(u, resp.target) : p.is_completed
          /\ \E e \in EnrollmentsOf(u, lessons[resp.target].course_id) :
                e.progress_percentage > RouteFresh(u, e.course_id) /\ RouteFresh(u, e.course_id) > 0

----------------------------------------------------------------------------
\* The learner specification: the admin and the student, neither enrolled at
\* the start, complete lessons of the premium and of the free course while
\* access is granted and revoked and lessons are published and unpublished;
\* one request at a time

InitLearner ==
    /\ users = SeedUsers
    /\ courses = SeedCourses
    /\ lessons = AccessLessons
    /\ enrollments = {}
    /\ progress = {}
    /\ req = [w \in {1} |-> IdleReq]
    /\ resp = NoReply
    /\ uniqueEnrollment = FALSE

NextLearner ==
    \/ \E w \in DOMAIN req, u \in DOMAIN users, l \in DOMAIN AccessLessons :
          MarkLessonCompleteBegin(w, u, l)
    \/ \E w \in DOMAIN req : MarkLessonCompleteRecompute(w)
    \/ \E w \in DOMAIN req : MarkLessonCompleteCommit(w)
    \/ \E w \in DOMAIN req, u \in Students, c \in PremiumCourses, by \in Admins :
          GrantCourseAccessBegin(w, u, c, by)
    \/ \E w \in DOMAIN req : GrantCourseAccessCommit(w)
    \/ \E u \in Students, c \in PremiumCourses : RevokeCourseAccess(u, c)
    \/ \E u \in Students : GrantPremiumAccess(u)
    \/ \E u \in Students : RevokePremiumAccess(u)
    \/ \E l \in DOMAIN AccessLessons, v \in BOOLEAN : UpdateLesson(l, v)

SpecLearner == InitLearner /\ [][NextLearner]_vars

\* the step is a mark_lesson_complete request of the user for the lesson,
\* while the lesson access check says no
DeniedMark(w, user_id, lesson_id) ==
    MarkLessonCompleteBegin(w, user_id, lesson_id) /\ ~CheckLessonAccess(user_id, lesson_id)

\* C16 as the spec states it: whenever lesson access does not resolve to true
\* the request fails with the access-denied error (403) and writes nothing.
C16_DeniedMarkIsForbidden ==
    [][\A w \in DOMAIN req, u \in DOMAIN users, l \in DOMAIN lessons :
          DeniedMark(w, u, l) =>
              resp'.status = 403 /\ UNCHANGED dbVars /\ req' = req]_vars

\* C16, amended: whenever lesson access does not resolve to true the request
\* fails and writes nothing; the error is access-denied (403) for a published
\* lesson and not-found (404) for an unpublished one, which the handler does
\* not look up at all.
C16_DeniedMarkWritesNothing ==
    [][\A w \in DOMAIN req, u \in DOMAIN users, l \in DOMAIN lessons :
          DeniedMark(w, u, l) =>
              /\ resp'.status = (IF lessons[l].is_published THEN 403 ELSE 404)
              /\ UNCHANGED dbVars /\ req' = req]_vars

\* a request of the student for the lesson that is not free was refused
\* after earlier completions had been written
C16_Witness ==
    /\ resp.op = "mark_lesson_complete" /\ resp.status = 403
    /\ ~CheckLessonAccess(resp.user, resp.target)
    /\ progress # {}

\* C17: after a successful mark_lesson_complete the recomputed progress is
\* stored: an enrollment row exists for the user and the course of the lesson,
\* created by the recomputation when there was none.
C17_RecomputeUpserts ==
    (resp.op = "mark_lesson_complete" /\ resp.status = 200 /\ resp.target \in DOMAIN lessons)
        => EnrollmentsOf(resp.user, lessons[resp.target].course_id) # {}

----------------------------------------------------------------------------
\* Properties of what a recomputation stores (checked under SpecProgress)

\* the request answered last ran a recomputation for the user and the course
JustRecomputed(user_id, course_id) ==
    /\ resp.op \in {"mark_lesson_complete", "update_lesson_progress"}
    /\ resp.status = 200 /\ resp.user = user_id
    /\ resp.target \in DOMAIN lessons /\ lessons[resp.target].course_id = course_id

\* C18: right after a request that recomputes, the enrollment stores the
\* reference values: completed = the user's completed rows on published
\* lessons of the course, percentage = round(100 * completed / total) over
\* the published lessons, and 0 when none is published.
C18_StoredEqualsReference ==
    \A u \in Students, c \in PremiumCourses :
        JustRecomputed(u, c) =>
            LET total == Cardinality(PublishedLessons(c))
                completed == Cardinality(PublishedLessons(c) \cap CompletedLessons(u))
            IN \A e \in EnrollmentsOf(u, c) :
                  /\ e.completed_lessons = completed
                  /\ e.progress_percentage =
                         (IF total > 0 THEN (200 * completed + total) \div (2 * total) ELSE 0)

\* the request in worker w is a position update below 100% that does not
\* ask for completion
PositionUpdate(w) ==
    req[w].op = "update_lesson_progress" /\ req[w].pct_in < 100 /\ ~req[w].done_in

\* C19: no step of an update_lesson_progress request with a percentage below
\* 100 changes a CourseEnrollment row.
C19_PositionUpdateLeavesEnrollment ==
    [][\A w \in DOMAIN req : PositionUpdate(w) => enrollments' = enrollments]_vars

----------------------------------------------------------------------------
\* The core specification: the access mutations of CourseService, each
\* called on behalf of an acting user, admin or not

\* revoke_course_access, grant_premium_access and revoke_premium_access take
\* no acting user: the call does the same on behalf of anyone
CoreRevokeCourseAccess(acting_user, user_id, course_id) == RevokeCourseAccess(user_id, course_id)

CoreGrantPremiumAccess(acting_user, user_id) == GrantPremiumAccess(user_id)

CoreRevokePremiumAccess(acting_user, user_id) == RevokePremiumAccess(user_id)

InitCore == Init

NextCore ==
    \/ \E by \in DOMAIN users, u \in Students : GrantLifetimeAccess(u, by)
    \/ \E w \in DOMAIN req, by \in DOMAIN users, u \in Students, c \in PremiumCourses :
          GrantCourseAccessBegin(w, u, c, by)
    \/ \E w \in DOMAIN req : GrantCourseAccessCommit(w)
    \/ \E by \in DOMAIN users, u \in Students, c \in PremiumCourses :
          CoreRevokeCourseAccess(by, u, c)
    \/ \E by \in DOMAIN users, u \in Students : CoreGrantPremiumAccess(by, u)
    \/ \E by \in DOMAIN users, u \in Students : CoreRevokePremiumAccess(by, u)
    \/ \E u \in Students, c \in PremiumCourses : CheckUserAccessCall(u, c)

SpecCore == InitCore /\ [][NextCore]_vars

\* C21: a call of an access mutation on behalf of a user who is not an admin
\* changes nothing: no user's has_premium_access, no enrollment, and no
\* request is taken up.
C21_NonAdminChangesNothing ==
    [][\A by \in DOMAIN users, u \in Students, c \in PremiumCourses :
          (/\ ~IsAdmin(by)
           /\ \/ GrantLifetimeAccess(u, by)
              \/ \E w \in DOMAIN req : GrantCourseAccessBegin(w, u, c, by)
              \/ CoreRevokeCourseAccess(by, u, c)
              \/ CoreGrantPremiumAccess(by, u)
              \/ CoreRevokePremiumAccess(by, u))
          => UNCHANGED <<users, enrollments, req>>]_vars

----------------------------------------------------------------------------
\* The resolver specification: access checks for every caller on every id,
\* the ids that match no course or lesson included, while entitlements change

\* a lesson id that matches no row of the lessons table
UnknownLessonId == Len(AccessLessons) + 1

InitResolver == Init

NextResolver ==
    \/ \E u \in CallerIds, c \in DOMAIN courses \cup {UnknownCourseId} :
          CheckUserAccessCall(u, c)
    \/ \E u \in CallerIds, l \in DOMAIN lessons \cup {UnknownLessonId} :
          CheckLessonAccessCall(u, l)
    \/ \E u \in Students : GrantPremiumAccess(u)
    \/ \E u \in Students : RevokePremiumAccess(u)
    \/ \E w \in DOMAIN req, u \in Students, c \in PremiumCourses, by \in Admins :
          GrantCourseAccessBegin(w, u, c, by)
    \/ \E w \in DOMAIN req : GrantCourseAccessCommit(w)
    \/ \E u \in Students, c \in PremiumCourses : RevokeCourseAccess(u, c)

SpecResolver == InitResolver /\ [][NextResolver]_vars

\* C22: the resolver denies what does not exist: a course access check on an
\* id that matches no course answers false, and a lesson access check on an
\* id that matches no lesson answers false, whoever the user is.
C22_UnknownIsDenied ==
    /\ (resp.op = "check_user_access" /\ resp.target \notin DOMAIN courses) => ~resp.granted
    /\ (resp.op = "check_lesson_access" /\ resp.target \notin DOMAIN lessons) => ~resp.granted

----------------------------------------------------------------------------
\* The lookup specification: the read handlers that take a lesson or a course
\* id from the caller, on ids that exist and on ids that do not

\* get_secure_video_url: the access check comes first, then the lesson and
\* its video_object_key are looked up, then the URL is signed; a lesson
\* without a stored video is a 404 and a signing failure a 500
GetSecureVideoUrl(user_id, lesson_id) ==
    /\ WorkerFree
    /\ IF ~CheckLessonAccess(user_id, lesson_id)
       THEN resp' = Reply("get_secure_video_url", 403, user_id, lesson_id)
       ELSE IF lesson_id \notin DOMAIN lessons
       THEN resp' = Reply("get_secure_video_url", 404, user_id, lesson_id)
       ELSE \E status \in {200, 404, 500} :
               resp' = Reply("get_secure_video_url", status, user_id, lesson_id)
    /\ UNCHANGED <<dbVars, req, uniqueEnrollment>>

\* get_course_progress: the access check, then the published lessons of the
\* course and, for each, whether the first LessonProgress row is completed
GetCourseProgress(user_id, course_id) ==
    /\ WorkerFree
    /\ IF ~CheckUserAccess(user_id, course_id)
       THEN resp' = Reply("get_course_progress", 403, user_id, course_id)
       ELSE LET course_lessons == {l \in DOMAIN lessons :
                                      lessons[l].course_id = course_id /\ lessons[l].is_published}
            IN \E done \in SUBSET course_lessons :
                  /\ \A l \in done : \E p \in ProgressOf(user_id, l) : p.is_completed
                  /\ \A l \in course_lessons \ done :
                        \/ ProgressOf(user_id, l) = {}
                        \/ \E p \in ProgressOf(user_id, l) : ~p.is_completed
                  /\ resp' = [Reply("get_course_progress", 200, user_id, course_id)
                                 EXCEPT !.total = Cardinality(course_lessons),
                                        !.completed = Cardinality(done)]
    /\ UNCHANGED <<dbVars, req, uniqueEnrollment>>

InitLookup == Init

NextLookup ==
    \/ \E u \in DOMAIN users, l \in DOMAIN lessons \cup {UnknownLessonId} :
          GetSecureVideoUrl(u, l)
    \/ \E u \in DOMAIN users, c \in DOMAIN courses \cup {UnknownCourseId} :
          GetCourseProgress(u, c)
    \/ \E u \in Students : GrantPremiumAccess(u)
    \/ \E u \in Students : RevokePremiumAccess(u)
    \/ \E w \in DOMAIN req, u \in Students, c \in PremiumCourses, by \in Admins :
          GrantCourseAccessBegin(w, u, c, by)
    \/ \E w \in DOMAIN req : GrantCourseAccessCommit(w)
    \/ \E u \in Students, c \in PremiumCourses : RevokeCourseAccess(u, c)

SpecLookup == InitLookup /\ [][NextLookup]_vars

\* C23: a request for a lesson or a course that does not exist ends in
\* not-found (404), never in access-denied and never in success, whoever asks:
\* get_secure_video_url on an unknown lesson id, get_course_progress on an
\* unknown course id.
C23_UnknownIsNotFound ==
    /\ (resp.op = "get_secure_video_url" /\ resp.target \notin DOMAIN lessons)
           => resp.status = 404
    /\ (resp.op = "get_course_progress" /\ resp.target \notin DOMAIN courses)
           => resp.status = 404

----------------------------------------------------------------------------
\* The catalogue specification: courses, chapters and lessons are deleted
\* while learners leave progress rows behind; one request at a time

\* the chapter of each lesson and the chapters of each course: lessons.chapter_id
\* and chapters.course_id
ChapterIds == 1..3

\* courses 1 and 2 of the seed data with their chapters, and a course 3 that
\* was created and never published
CatalogueCourses ==
    << SeedCourses[1] @@ [chapters |-> {1, 2}],
       SeedCourses[2] @@ [chapters |-> {3}],
       [is_premium |-> FALSE, is_published |-> FALSE, chapters |-> {}] >>

\* one lesson in each chapter
CatalogueLessons ==
    << Lesson(1, TRUE, TRUE) @@ [chapter_id |-> 1],
       Lesson(1, TRUE, FALSE) @@ [chapter_id |-> 2],
       Lesson(2, TRUE, FALSE) @@ [chapter_id |-> 3] >>

\* db.query(Lesson).filter(Lesson.chapter_id == chapter.id)
LessonsOfChapter(chapter_id) ==
    {l \in DOMAIN lessons : lessons[l].chapter_id = chapter_id}

\* delete_chapter as it would run on a database that enforces nothing: the
\* lessons of the chapter go and their progress rows stay
DeleteChapter_Unconstrained(chapter_id) ==
    /\ WorkerFree
    /\ IF \E c \in DOMAIN courses : chapter_id \in courses[c].chapters
       THEN /\ lessons' = [l \in DOMAIN lessons \ LessonsOfChapter(chapter_id) |-> lessons[l]]
            /\ courses' = [c \in DOMAIN courses |->
                              [courses[c] EXCEPT !.chapters = @ \ {chapter_id}]]
            /\ resp' = Reply("delete_chapter", 200, 0, chapter_id)
       ELSE /\ UNCHANGED <<lessons, courses>>
            /\ resp' = Reply("delete_chapter", 404, 0, chapter_id)
    /\ UNCHANGED <<users, enrollments, progress, req, uniqueEnrollment>>

\* delete_chapter: db.delete(chapter) cascades to the lessons of the chapter
\* (Chapter.lessons, "all, delete-orphan").  Lesson.progress has no delete
\* cascade, so the flush sets lesson_id of the progress rows of a deleted
\* lesson to NULL; the column is NOT NULL, the commit raises, the session is
\* rolled back and the route answers 400.
DeleteChapter(chapter_id) ==
    /\ WorkerFree
    /\ IF ~\E c \in DOMAIN courses : chapter_id \in courses[c].chapters
       THEN /\ UNCHANGED <<lessons, courses>>
            /\ resp' = Reply("delete_chapter", 404, 0, chapter_id)
       ELSE IF \E p \in progress : p.lesson_id \in LessonsOfChapter(chapter_id)
       THEN /\ UNCHANGED <<lessons, courses>>
            /\ resp' = Reply("delete_chapter", 400, 0, chapter_id)
       ELSE /\ lessons' = [l \in DOMAIN lessons \ LessonsOfChapter(chapter_id) |-> lessons[l]]
            /\ courses' = [c \in DOMAIN courses |->
                              [courses[c] EXCEPT !.chapters = @ \ {chapter_id}]]
            /\ resp' = Reply("delete_chapter", 200, 0, chapter_id)
    /\ UNCHANGED <<users, enrollments, progress, req, uniqueEnrollment>>

\* delete_course: an unpublished course is deleted with its chapters, their
\* lessons, the progress rows of those lessons and its enrollments; a published
\* course is unpublished.  delete_course_admin raises its 404 inside a try
\* whose except clause catches it and answers 400.
DeleteCourse(course_id) ==
    /\ WorkerFree
    /\ IF course_id \notin DOMAIN courses
       THEN /\ UNCHANGED <<courses, lessons, progress, enrollments>>
            /\ resp' = Reply("delete_course", 400, 0, course_id)
       ELSE IF ~courses[course_id].is_published
       THEN LET gone == UNION {LessonsOfChapter(ch) : ch \in courses[course_id].chapters}
            IN /\ progress' = {p \in progress : p.lesson_id \notin gone}
               /\ lessons' = [l \in DOMAIN lessons \ gone |-> lessons[l]]
               /\ enrollments' = {e \in enrollments : e.course_id # course_id}
               /\ courses' = [c \in DOMAIN courses \ {course_id} |-> courses[c]]
               /\ resp' = Reply("delete_course", 200, 0, course_id)
       ELSE /\ courses' = [courses EXCEPT ![course_id].is_published = FALSE]
            /\ UNCHANGED <<lessons, progress, enrollments>>
            /\ resp' = Reply("delete_course", 200, 0, course_id)
    /\ UNCHANGED <<users, req, uniqueEnrollment>>

InitCatalogue ==
    /\ users = SeedUsers
    /\ courses = CatalogueCourses
    /\ lessons = CatalogueLessons
    /\ enrollments = {}
    /\ progress = {}
    /\ req = [w \in {1} |-> IdleReq]
    /\ resp = NoReply
    /\ uniqueEnrollment = FALSE

NextCatalogue ==
    \/ \E w \in DOMAIN req, u \in DOMAIN users, l \in DOMAIN CatalogueLessons :
          MarkLessonCompleteBegin(w, u, l)
    \/ \E w \in DOMAIN req : MarkLessonCompleteRecompute(w)
    \/ \E w \in DOMAIN req : MarkLessonCompleteCommit(w)
    \/ \E w \in DOMAIN req, u \in Students, c \in PremiumCourses, by \in Admins :
          GrantCourseAccessBegin(w, u, c, by)
    \/ \E w \in DOMAIN req : GrantCourseAccessCommit(w)
    \/ \E l \in DOMAIN CatalogueLessons : DeleteLesson(l)
    \/ \E ch \in ChapterIds : DeleteChapter(ch)
    \/ \E c \in DOMAIN CatalogueCourses : DeleteCourse(c)

SpecCatalogue == InitCatalogue /\ [][NextCatalogue]_vars

\* C24: LessonProgress rows go exactly when their lesson goes.  After any
\* sequence of delete_lesson, delete_chapter and delete_course calls every
\* LessonProgress row references a lesson that exists (so a deleted lesson has
\* no row left), and no step removes a row whose lesson is still there.
C24_ProgressFollowsLesson ==
    /\ [](\A p \in progress : p.lesson_id \in DOMAIN lessons)
    /\ [][\A p \in progress :
             p.lesson_id \in DOMAIN lessons' =>
                 \E q \in progress' :
                    q.id = p.id /\ q.user_id = p.user_id /\ q.lesson_id = p.lesson_id]_vars

\* a course was deleted for good with its lessons, and the progress rows of the
\* lessons of the other courses are still there
C24_Witness ==
    /\ resp.op = "delete_course" /\ resp.status = 200
    /\ resp.target \notin DOMAIN courses
    /\ DOMAIN lessons # DOMAIN CatalogueLessons
    /\ progress # {}

\* the courses that were published when the catalogue was set up
EverPublished == {c \in DOMAIN CatalogueCourses : CatalogueCourses[c].is_published}

\* C30: a course that is or ever was published is never hard-deleted by
\* delete_course: whatever calls are made, the second one on the same course
\* included, its row stays in the courses table with its chapters, lessons,
\* enrollments and progress rows.
C30_PublishedCourseIsKept ==
    \A c \in EverPublished : c \in DOMAIN courses

----------------------------------------------------------------------------
\* The content specification: the handlers that serve the protected fields of
\* a lesson (video_url, file_url, text_content), while access is granted and
\* revoked and lessons are published and unpublished

\* get_lesson_content without its access check: every published lesson is served
GetLessonContent_NoAccessCheck(user_id, lesson_id) ==
    /\ WorkerFree
    /\ IF lesson_id \notin DOMAIN lessons \/ ~lessons[lesson_id].is_published
       THEN resp' = Reply("get_lesson_content", 404, user_id, lesson_id)
       ELSE resp' = [Reply("get_lesson_content", 200, user_id, lesson_id)
                        EXCEPT !.listed = {lesson_id}]
    /\ UNCHANGED <<dbVars, req, uniqueEnrollment>>

\* get_lesson_content: the published lesson is looked up (404), then the
\* caller must be an admin, or the lesson free, or check_user_access true for
\* the course of the lesson (403); the reply carries the protected fields of
\* the lesson (listed)
GetLessonContent(user_id, lesson_id) ==
    /\ WorkerFree
    /\ IF lesson_id \notin DOMAIN lessons \/ ~lessons[lesson_id].is_published
       THEN resp' = Reply("get_lesson_content", 404, user_id, lesson_id)
       ELSE IF ~(\/ IsAdmin(user_id)
                 \/ lessons[lesson_id].is_free
                 \/ CheckUserAccess(user_id, lessons[lesson_id].course_id))
       THEN resp' = Reply("get_lesson_content", 403, user_id, lesson_id)
       ELSE resp' = [Reply("get_lesson_content", 200, user_id, lesson_id)
                        EXCEPT !.listed = {lesson_id}]
    /\ UNCHANGED <<dbVars, req, uniqueEnrollment>>

\* get_course_structure_with_access: the published course is looked up (404);
\* every published lesson of the course is listed (total), with its protected
\* fields (listed) when has_lesson_access is true
GetCourseStructureWithAccess(user_id, course_id) ==
    /\ WorkerFree
    /\ IF course_id \notin DOMAIN courses \/ ~courses[course_id].is_published
       THEN resp' = Reply("get_course_structure_with_access", 404, user_id, course_id)
       ELSE LET has_course_access == CheckUserAccess(user_id, course_id)
                course_lessons == {l \in DOMAIN lessons :
                                      lessons[l].course_id = course_id /\ lessons[l].is_published}
            IN resp' = [Reply("get_course_structure_with_access", 200, user_id, course_id)
                           EXCEPT !.granted = has_course_access,
                                  !.total = Cardinality(course_lessons),
                                  !.listed = {l \in course_lessons :
                                                 \/ lessons[l].is_free
                                                 \/ has_course_access
                                                 \/ IsAdmin(user_id)}]
    /\ UNCHANGED <<dbVars, req, uniqueEnrollment>>

InitContent == Init

NextContent ==
    \/ \E u \in DOMAIN users, l \in DOMAIN AccessLessons \cup {UnknownLessonId} :
          GetLessonContent(u, l)
    \/ \E u \in DOMAIN users, c \in DOMAIN courses \cup {UnknownCourseId} :
          GetCourseStructureWithAccess(u, c)
    \/ \E u \in Students : GrantPremiumAccess(u)
    \/ \E u \in Students : RevokePremiumAccess(u)
    \/ \E w \in DOMAIN req, u \in Students, c \in PremiumCourses, by \in Admins :
          GrantCourseAccessBegin(w, u, c, by)
    \/ \E w \in DOMAIN req : GrantCourseAccessCommit(w)
    \/ \E u \in Students, c \in PremiumCourses : RevokeCourseAccess(u, c)
    \/ \E l \in DOMAIN AccessLessons, v \in BOOLEAN : UpdateLesson(l, v)

SpecContent == InitContent /\ [][NextContent]_vars

\* the three grounds on which the protected fields of a lesson may be shown
MaySeeContent(user_id, lesson_id) ==
    \/ lessons[lesson_id].is_free
    \/ IsAdmin(user_id)
    \/ CheckUserAccess(user_id, lessons[lesson_id].course_id)

\* C25 as the spec states it: the protected fields of a lesson are exposed
\* only to a user who may see them (free lesson, admin, or course access); for
\* every other user the structure response omits them and the content request
\* is rejected with 403.
C25_OthersGet403 ==
    /\ resp.op = "get_course_structure_with_access" =>
           \A l \in resp.listed : MaySeeContent(resp.user, l)
    /\ (resp.op = "get_lesson_content" /\ resp.target \in DOMAIN lessons
           /\ ~MaySeeContent(resp.user, resp.target))
           => resp.status = 403 /\ resp.listed = {}

\* C25, amended: the protected fields are exposed only to a user who may see
\* them; for every other user the structure response omits them and the
\* content request is rejected without them, with 403 for a published lesson
\* and with 404 for an unpublished one, which is looked up before the check.
C25_ProtectedFieldsGuarded ==
    /\ resp.op = "get_course_structure_with_access" =>
           \A l \in resp.listed : MaySeeContent(resp.user, l)
    /\ (resp.op = "get_lesson_content" /\ resp.target \in DOMAIN lessons
           /\ ~MaySeeContent(resp.user, resp.target))
           => /\ resp.listed = {}
              /\ resp.status = IF lessons[resp.target].is_published THEN 403 ELSE 404

\* a structure reply that lists a lesson without its protected fields to a user
\* who may not see them
C25_Witness ==
    /\ resp.op = "get_course_structure_with_access" /\ resp.status = 200
    /\ resp.total > Cardinality(resp.listed)
    /\ \E l \in DOMAIN lessons :
          /\ lessons[l].course_id = resp.target /\ lessons[l].is_published
          /\ ~MaySeeContent(resp.user, l) /\ l \notin resp.listed

----------------------------------------------------------------------------
\* Properties of a completion and of what follows it (checked under
\* SpecProgress)

\* the request in worker w marks a published lesson that no committed row of
\* the user shows completed, for a user who has an enrollment row
FirstCompletion(w) ==
    /\ req[w].enr # 0
    /\ req[w].target \in DOMAIN lessons /\ lessons[req[w].target].is_published
    /\ \A p \in ProgressOf(req[w].user, req[w].target) : ~p.is_completed

\* C26: the recomputation inside mark_lesson_complete counts the completion the
\* request itself writes: when a user with an enrollment row marks a published
\* lesson complete that was not completed before, then with the commit
\* completed_lessons of the enrollment is one higher than before and equals
\* the number of the user's completed published lessons of the course.
C26_RecomputeCountsOwnWrite ==
    [][\A w \in DOMAIN req :
          (MarkCommits(w) /\ FirstCompletion(w)) =>
              \A e \in EnrollmentsOf(req[w].user, req[w].course) :
                  \A f \in enrollments' :
                      (f.id = e.id /\ f.user_id = e.user_id /\ f.course_id = e.course_id) =>
                          /\ f.completed_lessons = e.completed_lessons + 1
                          /\ f.completed_lessons =
                                 RouteCompletedCount(progress', req[w].user, req[w].course)]_vars

\* C27: completion is monotonic for each (user, lesson): no step of an
\* update_lesson_progress request, a position update below 100% with the
\* default is_completed included, turns a completed LessonProgress row back
\* into an uncompleted one.
C27_CompletionIsMonotonic ==
    [][\A w \in DOMAIN req :
          req[w].op = "update_lesson_progress" =>
              \A p \in progress :
                  p.is_completed =>
                      \A q \in progress' :
                          (q.id = p.id /\ q.user_id = p.user_id /\ q.lesson_id = p.lesson_id)
                              => q.is_completed]_vars

----------------------------------------------------------------------------
\* The listing specification: get_user_courses for every kind of caller,
\* while premium access and access to either course is granted and revoked

\* get_user_courses: how many times the list returned has the course.  The
\* list of a user who is neither admin nor premium is courses + free_courses:
\* the published courses of the user's enrollments with has_access, followed
\* by every published free course.
UserCourseCopies(user_id, course_id) ==
    IF course_id \notin UserCourses(user_id) THEN 0
    ELSE IF users[user_id].role = "admin" \/ users[user_id].has_premium_access THEN 1
    ELSE (IF \E e \in enrollments :
                /\ e.user_id = user_id /\ e.has_access /\ e.course_id = course_id
          THEN 1 ELSE 0)
         + (IF ~courses[course_id].is_premium THEN 1 ELSE 0)

InitListing == Init

NextListing ==
    \/ \E u \in CallerIds : GetUserCourses(u)
    \/ \E u \in Students : GrantPremiumAccess(u)
    \/ \E u \in Students : RevokePremiumAccess(u)
    \/ \E w \in DOMAIN req, u \in Students, c \in DOMAIN courses, by \in Admins :
          GrantCourseAccessBegin(w, u, c, by)
    \/ \E w \in DOMAIN req : GrantCourseAccessCommit(w)
    \/ \E u \in Students, c \in DOMAIN courses : RevokeCourseAccess(u, c)

SpecListing == InitListing /\ [][NextListing]_vars

\* C29: get_user_courses(U) returns exactly the published courses C for which
\* check_user_access(U, C) is true, and each of them once, whether U is an
\* admin, has global premium, is enrolled in a premium course or in a free one.
C29_ListingMatchesAccess ==
    resp.op = "get_user_courses" =>
        /\ resp.listed = {c \in DOMAIN courses :
                             courses[c].is_published /\ CheckUserAccess(resp.user, c)}
        /\ \A c \in DOMAIN courses : UserCourseCopies(resp.user, c) <= 1

----------------------------------------------------------------------------
\* The mutation specification: both ways of recording progress, for the
\* admin and for a student who is given premium access or access to the
\* premium course, on lessons that are free or not and published or not; one
\* request at a time

InitMutation == InitLearner

NextMutation ==
    \/ \E w \in DOMAIN req, u \in DOMAIN users, l \in DOMAIN AccessLessons :
          MarkLessonCompleteBegin(w, u, l)
    \/ \E w \in DOMAIN req : MarkLessonCompleteRecompute(w)
    \/ \E w \in DOMAIN req : MarkLessonCompleteCommit(w)
    \/ \E w \in DOMAIN req, u \in DOMAIN users, l \in DOMAIN AccessLessons,
          d \in CompletionInputs :
          UpdateLessonProgressBegin(w, u, l, d.progress_percentage, d.is_completed)
    \/ \E w \in DOMAIN req : UpdateLessonProgressWrite(w)
    \/ \E w \in DOMAIN req : UpdateLessonProgressRecompute(w)
    \/ \E w \in DOMAIN req : UpdateLessonProgressCommit(w)
    \/ \E u \in Students : GrantPremiumAccess(u)
    \/ \E u \in Students : RevokePremiumAccess(u)
    \/ \E w \in DOMAIN req, u \in Students, c \in PremiumCourses, by \in Admins :
          GrantCourseAccessBegin(w, u, c, by)
    \/ \E w \in DOMAIN req : GrantCourseAccessCommit(w)
    \/ \E l \in DOMAIN AccessLessons, v \in BOOLEAN : UpdateLesson(l, v)

SpecMutation == InitMutation /\ [][NextMutation]_vars

\* C28: progress mutation is authorised by lesson access.  An
\* update_lesson_progress request goes on to its write exactly when
\* check_lesson_access is true for the user and the lesson, and a
\* mark_lesson_complete request goes on exactly for the same pairs; so a user
\* without entitlement records progress on a free lesson of a premium course
\* through both.
C28_MutationFollowsLessonAccess ==
    [][\A w \in DOMAIN req, u \in DOMAIN users, l \in DOMAIN lessons :
          /\ (\E d \in CompletionInputs :
                 UpdateLessonProgressBegin(w, u, l, d.progress_percentage, d.is_completed))
                 => (req'[w].pc = "write" <=> CheckLessonAccess(u, l))
          /\ MarkLessonCompleteBegin(w, u, l)
                 => (req'[w].pc = "recompute" <=> CheckLessonAccess(u, l))]_vars

====
